---- MODULE Spec2Model ----
(***************************************************************************)
(* Model of pyuoi/linear_model/utils.py (stability_selection_to_threshold  *)
(* and intersection) and of the fitted-state protocol of the Poisson       *)
(* solver exercised by tests/test_poisson.py.                              *)
(*                                                                         *)
(* Python objects live in a heap (a sequence of objects, a reference is an *)
(* index), so that aliasing and in-place mutation are observable.  A       *)
(* float is the rational num/den; for the values drawn here the IEEE       *)
(* double product with n_boots truncates to the same integer as the exact  *)
(* product.                                                                *)
(***************************************************************************)
EXTENDS Integers, Sequences, FiniteSets, TLC

VARIABLES heap, call, pre, ret, coef_, intercept_, out

vars == <<heap, call, pre, ret, coef_, intercept_, out>>

(* ------------------------------ bounds -------------------------------- *)

\* largest number of bootstraps a caller passes
MaxBoots == 10

\* longest stability_selection list / array a caller passes
MaxLen == 2

(* ------------------------------ values -------------------------------- *)

\* a Python or numpy scalar: its type tag and its value num/den
Elem(t, num, den) == [t |-> t, num |-> num, den |-> den]

PyFloat(num, den) == Elem("float", num, den)

PyInt(v) == Elem("int", v, 1)

\* True and False are instances of int with values 1 and 0
PyBool(v) == Elem("bool", v, 1)

PyStr == Elem("str", 0, 1)

\* a heap object: a Python list or a numpy array with its dtype
Obj(type, dtype, data) == [type |-> type, dtype |-> dtype, data |-> data]

\* what a call evaluates to: the heap it leaves, how it ended, what it returns
Outcome(h, status, ref) == [heap |-> h, status |-> status, ref |-> ref]

\* np.array / np.zeros / arithmetic results are new objects
Alloc(h, o) == Outcome(Append(h, o), "ok", Len(h) + 1)

\* an argument: a scalar passed by value, a reference, or something else
ArgScalar(e) == [kind |-> "scalar", val |-> e, ref |-> 0]

ArgRef(r) == [kind |-> "ref", val |-> PyInt(0), ref |-> r]

ArgOther == [kind |-> "other", val |-> PyInt(0), ref |-> 0]

(* ------------------------- numpy primitives --------------------------- *)

\* isinstance(x, (float, int)) in place of isinstance(x, float)
IsInstanceNumber(e) == e.t \in {"float", "int", "bool"}

\* isinstance(x, float)
IsInstanceFloat(e) == e.t = "float"

\* isinstance(x, int): bool is a subclass of int
IsInstanceInt(e) == e.t \in {"int", "bool"}

\* rounding to the nearest integer in place of truncation
RoundToInt(e) ==
    IF e.num >= 0 THEN PyInt((2 * e.num + e.den) \div (2 * e.den))
    ELSE PyInt(-((2 * (-e.num) + e.den) \div (2 * e.den)))

\* int(x) and astype('int') on one value: truncation toward zero
TruncToInt(e) ==
    IF e.num >= 0 THEN PyInt(e.num \div e.den)
    ELSE PyInt(-((-e.num) \div e.den))

\* n * x for a float x
ScaleBy(n, e) == PyFloat(n * e.num, e.den)

\* dtype np.array infers for a list of floats or of ints
InferDtype(data) ==
    IF data = <<>> THEN "float"
    ELSE IF \A i \in 1..Len(data) : data[i].t = "bool" THEN "bool"
    ELSE IF \A i \in 1..Len(data) : IsInstanceInt(data[i]) THEN "int"
    ELSE IF \A i \in 1..Len(data) : data[i].t \in {"float", "int", "bool"} THEN "float"
    ELSE "str"

\* np.array(a_list): a new array holding the list's values
NpArray(h, data) ==
    LET dt == InferDtype(data)
    IN Alloc(h, Obj("ndarray", dt,
                    [i \in 1..Len(data) |-> Elem(dt, data[i].num, data[i].den)]))

\* the array copied without the factor n_boots
NpScaleless(h, n, r) ==
    Alloc(h, Obj("ndarray", "float", h[r].data))

\* n_boots * an_array: a new float array
NpScale(h, n, r) ==
    Alloc(h, Obj("ndarray", "float",
                 [i \in 1..Len(h[r].data) |-> ScaleBy(n, h[r].data[i])]))

\* astype('int', copy=False): an int array is returned as it is
AsTypeIntNoCopy(h, r) ==
    IF h[r].dtype = "int" THEN Outcome(h, "ok", r)
    ELSE Alloc(h, Obj("ndarray", "int",
                      [i \in 1..Len(h[r].data) |->
                          IF h[r].data[i].num >= 0
                          THEN PyInt(h[r].data[i].num \div h[r].data[i].den)
                          ELSE PyInt(-((-h[r].data[i].num) \div h[r].data[i].den))]))

\* an_array.astype('int'): always a copy
AsTypeInt(h, r) ==
    Alloc(h, Obj("ndarray", "int",
                 [i \in 1..Len(h[r].data) |-> TruncToInt(h[r].data[i])]))

\* the lower bound taken as >= 1 in place of > 1
WithinBoundsFromOne(data, n) ==
    /\ \A i \in 1..Len(data) : data[i].num <= n
    /\ \A i \in 1..Len(data) : data[i].num >= 1

\* the bounds checked on the largest and smallest threshold, which an empty
\* array does not have
WithinBoundsOfExtremes(data, n) ==
    /\ data # <<>>
    /\ \A i \in 1..Len(data) : data[i].num <= n
    /\ \A i \in 1..Len(data) : data[i].num > 1

\* np.all(selection_thresholds <= n_boots) and np.all(selection_thresholds > 1)
WithinBounds(data, n) ==
    /\ \A i \in 1..Len(data) : data[i].num <= n
    /\ \A i \in 1..Len(data) : data[i].num > 1

(* ------------------ stability_selection_to_threshold ------------------ *)

\* the type dispatch: the array of thresholds before astype, or ValueError
ConvertSelection(h, ss, n_boots) ==
    IF ss.kind = "scalar" /\ IsInstanceFloat(ss.val)
    THEN NpArray(h, <<TruncToInt(ScaleBy(n_boots, ss.val))>>)
    ELSE IF ss.kind = "scalar" /\ IsInstanceInt(ss.val)
    THEN NpArray(h, <<PyInt(ss.val.num)>>)
    ELSE IF ss.kind = "ref" /\ h[ss.ref].type = "list"
    THEN LET l == h[ss.ref].data
         IN IF \A i \in 1..Len(l) : IsInstanceFloat(l[i])
            THEN LET a == NpArray(h, l) IN NpScale(a.heap, n_boots, a.ref)
            ELSE IF \A i \in 1..Len(l) : IsInstanceInt(l[i])
            THEN NpArray(h, l)
            ELSE Outcome(h, "ValueError", 0)
    ELSE IF ss.kind = "ref" /\ h[ss.ref].type = "ndarray"
    THEN IF h[ss.ref].dtype = "float"
         THEN NpScale(h, n_boots, ss.ref)
         ELSE IF h[ss.ref].dtype = "int"
         THEN Outcome(h, "ok", ss.ref)
         ELSE Outcome(h, "ValueError", 0)
    ELSE Outcome(h, "ValueError", 0)

stability_selection_to_threshold(h, ss, n_boots) ==
    LET c == ConvertSelection(h, ss, n_boots)
    IN IF c.status # "ok" THEN c
       ELSE LET a == AsTypeInt(c.heap, c.ref)
            IN IF ~WithinBounds(a.heap[a.ref].data, n_boots)
               THEN Outcome(a.heap, "ValueError", 0)
               ELSE a

(* ---------------------------- intersection ---------------------------- *)

\* whether numpy accepts x as one entry of a shape: an integer, not a bool,
\* not a list and not an array of one or more dimensions
IsIndex(a) == a.kind = "scalar" /\ a.val.t = "int"

\* whether enumerate(x) can iterate x: a list or an array, not a number
IsIterable(a) == a.kind = "ref"

\* np.count_nonzero(coefs, axis=0)[l, f]
CountNonzero(t, l, f) == Cardinality({b \in 1..Len(t) : t[b][l][f] # 0})

\* np.zeros((n, n_reg_params, n_features), dtype=bool)
NpZeros(n, n_reg_params, n_features) ==
    [ti \in 1..n |-> [l \in 1..n_reg_params |-> [f \in 1..n_features |-> FALSE]]]

\* supports after the loop over enumerate(selection_thresholds)
FillSupports(zeros, t, thr) ==
    [ti \in 1..Len(zeros) |->
        IF ti <= Len(thr)
        THEN [l \in 1..Len(t[1]) |->
                [f \in 1..Len(t[1][1]) |-> CountNonzero(t, l, f) >= thr[ti].num]]
        ELSE zeros[ti]]

\* np.reshape(supports, (n * n_reg_params, n_features)): threshold-major rows
NpReshape(s, n_reg_params) ==
    [r \in 1..(Len(s) * n_reg_params) |->
        s[((r - 1) \div n_reg_params) + 1][((r - 1) % n_reg_params) + 1]]

\* np.squeeze of a 2-D array: every axis of length one is dropped
NpSqueeze(rows, n_features) ==
    IF Len(rows) = 1 /\ n_features = 1 THEN rows[1][1]
    ELSE IF Len(rows) = 1 THEN rows[1]
    ELSE IF n_features = 1 THEN [r \in 1..Len(rows) |-> rows[r][1]]
    ELSE rows

intersection(h, coefs, selection_thresholds) ==
    LET n_selection_thresholds == selection_thresholds
        t == h[coefs].data
        n_reg_params == Len(t[1])
        n_features == Len(t[1][1])
    IN IF ~IsIndex(n_selection_thresholds)
       THEN Outcome(h, "TypeError", 0)
       ELSE IF n_selection_thresholds.val.num < 0
       THEN Outcome(h, "ValueError", 0)
       ELSE LET zeros == NpZeros(n_selection_thresholds.val.num,
                                 n_reg_params, n_features)
            IN IF ~IsIterable(selection_thresholds)
               THEN Outcome(h, "TypeError", 0)
               ELSE IF Len(h[selection_thresholds.ref].data) > Len(zeros)
               THEN Outcome(h, "IndexError", 0)
               ELSE Alloc(h, Obj("ndarray", "bool",
                        NpSqueeze(NpReshape(
                            FillSupports(zeros, t,
                                         h[selection_thresholds.ref].data),
                            n_reg_params), n_features)))

(* ------------------------------ inputs -------------------------------- *)

SeqsUpTo(S, n) == UNION {[1..k -> S] : k \in 0..n}

BootCounts == 1..MaxBoots

FloatValues ==
    {PyFloat(k, 10) : k \in -1..11} \cup {PyFloat(k, 4) : k \in {1, 3, 5}}

IntValues == {PyInt(k) : k \in -1..(MaxBoots + 1)}

BoolValues == {PyBool(0), PyBool(1)}

ScalarInputs == FloatValues \cup IntValues \cup BoolValues

FloatElems == {PyFloat(1, 4), PyFloat(5, 10), PyFloat(9, 10), PyFloat(3, 2)}

IntElems == {PyInt(1), PyInt(2), PyInt(MaxBoots), PyInt(MaxBoots + 1)}

ListElems == FloatElems \cup IntElems \cup {PyBool(1), PyStr}

ListInputs == SeqsUpTo(ListElems, MaxLen)

ArrayInputs ==
    {Obj("ndarray", "float", d) : d \in SeqsUpTo(FloatElems, MaxLen)}
    \cup {Obj("ndarray", "int", d) : d \in SeqsUpTo(IntElems, MaxLen)}
    \cup {Obj("ndarray", "bool", d) : d \in SeqsUpTo({PyBool(1)}, MaxLen)}
    \cup {Obj("ndarray", "str", d) : d \in SeqsUpTo({PyStr}, MaxLen)}

\* shapes (n_boots, n_lambdas, n_features) of the coefficient tensors drawn
Shapes == {<<5, 1, 3>>, <<2, 2, 2>>}

\* the tensor in which feature f at lambda l is nonzero in cnt[l][f] bootstraps
\* (the first ones for odd f, the last ones for even f)
TensorOf(shape, cnt) ==
    [b \in 1..shape[1] |-> [l \in 1..shape[2] |-> [f \in 1..shape[3] |->
        IF (IF f % 2 = 1 THEN b ELSE shape[1] + 1 - b) <= cnt[l][f]
        THEN (IF b % 2 = 1 THEN 2 ELSE -1)
        ELSE 0]]]

Tensors ==
    UNION {{TensorOf(s, cnt) : cnt \in [1..s[2] -> [1..s[3] -> 0..s[1]]]}
           : s \in Shapes}

\* the tensor of the documented example: feature 1 nonzero in all five
\* bootstraps, feature 2 in three, feature 3 in none
ExampleTensor == TensorOf(<<5, 1, 3>>, <<(<<5, 3, 0>>)>>)

\* threshold lists a caller writes by hand for a tensor of n bootstraps
ThresholdLists(n) == SeqsUpTo({PyInt(2), PyInt(n - 1), PyInt(n)}, MaxLen) \ {<<>>}

(* ------------------------------- state -------------------------------- *)

NoCall ==
    [op |-> "none", ss |-> ArgOther, n_boots |-> 0, coefs |-> 0,
     thresholds |-> ArgOther]

ThresholdCall(ss, n_boots) ==
    [op |-> "stability_selection_to_threshold", ss |-> ss, n_boots |-> n_boots,
     coefs |-> 0, thresholds |-> ArgOther]

IntersectionCall(coefs, thresholds) ==
    [op |-> "intersection", ss |-> ArgOther, n_boots |-> 0, coefs |-> coefs,
     thresholds |-> thresholds]

\* an attribute the instance does not have yet
Unset == [set |-> FALSE, val |-> <<>>]

UnsetIntercept == [set |-> FALSE, val |-> 0]

NoOutput == [op |-> "none", status |-> "none", eta |-> <<>>]

Init ==
    /\ heap = <<>>
    /\ call = NoCall
    /\ pre = <<>>
    /\ ret = [status |-> "none", ref |-> 0]
    /\ coef_ = Unset
    /\ intercept_ = UnsetIntercept
    /\ out = NoOutput

(* ------------------------------ callers ------------------------------- *)

\* stability_selection_to_threshold(ss, n_boots) called on the heap h0
Resolve(h0, ss, n_boots) ==
    LET r == stability_selection_to_threshold(h0, ss, n_boots)
    IN /\ call' = ThresholdCall(ss, n_boots)
       /\ pre' = h0
       /\ heap' = r.heap
       /\ ret' = [status |-> r.status, ref |-> r.ref]
       /\ UNCHANGED <<coef_, intercept_, out>>

ResolveScalar ==
    /\ call.op = "none"
    /\ \E e \in ScalarInputs, n \in BootCounts : Resolve(<<>>, ArgScalar(e), n)

ResolveList ==
    /\ call.op = "none"
    /\ \E l \in ListInputs, n \in BootCounts :
        Resolve(<<Obj("list", "object", l)>>, ArgRef(1), n)

ResolveArray ==
    /\ call.op = "none"
    /\ \E a \in ArrayInputs, n \in BootCounts : Resolve(<<a>>, ArgRef(1), n)

\* a tuple, None, a string, a numpy integer scalar
ResolveOther ==
    /\ call.op = "none"
    /\ \E n \in BootCounts : Resolve(<<>>, ArgOther, n)

\* intersection(coefs, selection_thresholds) called on the heap h0
Intersect(h0, coefs, thresholds) ==
    LET r == intersection(h0, coefs, thresholds)
    IN /\ call' = IntersectionCall(coefs, thresholds)
       /\ pre' = h0
       /\ heap' = r.heap
       /\ ret' = [status |-> r.status, ref |-> r.ref]
       /\ UNCHANGED <<coef_, intercept_, out>>

\* what a caller passes as stability_selection, with the heap holding it
SelectionInputs ==
    {[h |-> <<>>, ss |-> ArgScalar(e)] : e \in ScalarInputs}
    \cup {[h |-> <<Obj("list", "object", l)>>, ss |-> ArgRef(1)] : l \in ListInputs}

\* the thresholds come from stability_selection_to_threshold
IntersectResolved ==
    /\ call.op = "none"
    /\ \E t \in Tensors, i \in SelectionInputs :
        LET r == stability_selection_to_threshold(i.h, i.ss, Len(t))
        IN /\ r.status = "ok"
           /\ Intersect(Append(r.heap, Obj("ndarray", "float", t)),
                        Len(r.heap) + 1, ArgRef(r.ref))

\* the thresholds are a list written by hand, such as [4]
IntersectList ==
    /\ call.op = "none"
    /\ \E t \in Tensors :
        \E l \in ThresholdLists(Len(t)) :
            Intersect(<<Obj("ndarray", "float", t), Obj("list", "object", l)>>,
                      1, ArgRef(2))

\* the thresholds are a bare integer
IntersectCount ==
    /\ call.op = "none"
    /\ \E t \in Tensors, k \in 0..MaxBoots :
        Intersect(<<Obj("ndarray", "float", t)>>, 1, ArgScalar(PyInt(k)))

\* the caller is done with the result; the next call starts afresh
Return ==
    /\ call.op # "none"
    /\ call' = NoCall
    /\ heap' = <<>>
    /\ pre' = <<>>
    /\ ret' = [status |-> "none", ref |-> 0]
    /\ UNCHANGED <<coef_, intercept_, out>>

Next ==
    \/ ResolveScalar
    \/ ResolveList
    \/ ResolveArray
    \/ ResolveOther
    \/ IntersectResolved
    \/ IntersectList
    \/ IntersectCount
    \/ Return

Spec == Init /\ [][Next]_vars

(* --------------------------- Poisson solver --------------------------- *)

\* number of features of the design matrices drawn
NFeatures == 2

CoefValues == {-1, 0, 1}

CoefVectors == [1..NFeatures -> CoefValues]

\* design matrices: two samples each
DesignMatrices == [1..2 -> [1..NFeatures -> {0, 1}]]

RECURSIVE DotUpTo(_, _, _)
DotUpTo(x, beta, k) ==
    IF k = 0 THEN 0 ELSE DotUpTo(x, beta, k - 1) + x[k] * beta[k]

\* the linear predictor X beta + intercept, one entry per sample
LinearPredictor(X, beta, b) ==
    [i \in 1..Len(X) |-> DotUpTo(X[i], beta, Len(beta)) + b]

\* the instance is in state Fitted: coef_ and intercept_ are present
IsFitted == coef_.set /\ intercept_.set

\* an unfitted instance silently predicting with zero coefficients
PredictOutcomeDefaulted(op, X) ==
    [op |-> op, status |-> "ok",
     eta |-> IF coef_.set /\ intercept_.set
             THEN [i \in 1..Len(X) |->
                      DotUpTo(X[i], coef_.val, Len(coef_.val)) + intercept_.val]
             ELSE [i \in 1..Len(X) |-> 0]]

\* predict / predict_mean: the "not fitted" condition, else the prediction,
\* kept as the linear predictor eta it is the exponential of
PredictOutcome(op, X) ==
    IF ~IsFitted
    THEN [op |-> op, status |-> "NotFittedError", eta |-> <<>>]
    ELSE [op |-> op, status |-> "ok",
          eta |-> LinearPredictor(X, coef_.val, intercept_.val)]

\* poisson = Poisson()
Construct ==
    /\ coef_' = Unset
    /\ intercept_' = UnsetIntercept
    /\ out' = NoOutput
    /\ UNCHANGED <<heap, call, pre, ret>>

\* the test's "create fit": poisson.coef_ = ...; poisson.intercept_ = 0
ManualFit ==
    /\ \E beta \in CoefVectors : coef_' = [set |-> TRUE, val |-> beta]
    /\ intercept_' = [set |-> TRUE, val |-> 0]
    /\ out' = NoOutput
    /\ UNCHANGED <<heap, call, pre, ret>>

\* fit(X, y): Unfit -> Fitting -> Fitted; the best iterate is kept, whatever
\* it is, and non-convergence raises nothing
Fit ==
    /\ \E beta \in CoefVectors : coef_' = [set |-> TRUE, val |-> beta]
    /\ \E b \in CoefValues : intercept_' = [set |-> TRUE, val |-> b]
    /\ out' = NoOutput
    /\ UNCHANGED <<heap, call, pre, ret>>

Predict ==
    /\ \E X \in DesignMatrices : out' = PredictOutcome("predict", X)
    /\ UNCHANGED <<heap, call, pre, ret, coef_, intercept_>>

PredictMean ==
    /\ \E X \in DesignMatrices : out' = PredictOutcome("predict_mean", X)
    /\ UNCHANGED <<heap, call, pre, ret, coef_, intercept_>>

NextSolver ==
    \/ Construct
    \/ ManualFit
    \/ Fit
    \/ Predict
    \/ PredictMean

SpecSolver == Init /\ [][NextSolver]_vars

(* ----------------------- vocabulary of the claims ---------------------- *)

IsResolve == call.op = "stability_selection_to_threshold"

IsIntersection == call.op = "intersection"

\* the values the caller passed as stability_selection, one per element
InputData ==
    IF call.ss.kind = "scalar" THEN <<call.ss.val>>
    ELSE IF call.ss.kind = "ref" THEN pre[call.ss.ref].data
    ELSE <<>>

ScalarInput == IsResolve /\ call.ss.kind = "scalar"

ListInput == IsResolve /\ call.ss.kind = "ref" /\ pre[call.ss.ref].type = "list"

ArrayInput == IsResolve /\ call.ss.kind = "ref" /\ pre[call.ss.ref].type = "ndarray"

AllFractions == \A i \in 1..Len(InputData) : InputData[i].t = "float"

AllIntegers == \A i \in 1..Len(InputData) : InputData[i].t \in {"int", "bool"}

\* a float, an int, a list of floats only or of ints only, a float or int array
WellFormed ==
    \/ ScalarInput
    \/ ListInput /\ (AllFractions \/ AllIntegers)
    \/ ArrayInput /\ pre[call.ss.ref].dtype \in {"float", "int"}

\* the q >= 0 with q * den <= num < (q + 1) * den
FloorOf(num, den) ==
    CHOOSE q \in 0..num : q * den <= num /\ num < (q + 1) * den

\* the threshold element e stands for under n_boots = n
ThresholdOf(e, n) ==
    IF e.t # "float" THEN e.num
    ELSE IF e.num >= 0 THEN FloorOf(n * e.num, e.den)
    ELSE -FloorOf(n * (-e.num), e.den)

Returned == ret.status = "ok"

\* the integers of the returned threshold array
ReturnedValues ==
    [i \in 1..Len(heap[ret.ref].data) |-> heap[ret.ref].data[i].num]

\* the returned supports as rows of n_features booleans, np.squeeze undone
SupportRows(rows, n_features) ==
    LET d == heap[ret.ref].data
    IN IF rows = 1 /\ n_features = 1 THEN <<(<<d>>)>>
       ELSE IF rows = 1 THEN <<d>>
       ELSE IF n_features = 1 THEN [r \in 1..rows |-> <<d[r]>>]
       ELSE d

CallTensor == pre[call.coefs].data

CallThresholds ==
    [i \in 1..Len(pre[call.thresholds.ref].data) |->
        pre[call.thresholds.ref].data[i].num]

\* intersection was handed a sequence of thresholds (a list or an array)
SequenceOfThresholds == IsIntersection /\ call.thresholds.kind = "ref"

\* the support intersection returned for threshold ti and lambda l
SupportFor(ti, l) ==
    SupportRows(Len(CallThresholds) * Len(CallTensor[1]),
                Len(CallTensor[1][1]))[(ti - 1) * Len(CallTensor[1]) + l]

(* ------------------------------- claims ------------------------------- *)

\* C1: intersection marks a feature True for threshold t at a lambda iff it
\* is nonzero in at least t bootstraps there; for the (5, 1, 3) tensor with
\* counts 5, 3, 0 and thresholds [4] it returns [True, False, False].
C1_SupportIffCount ==
    SequenceOfThresholds =>
        /\ Returned
        /\ \A ti \in 1..Len(CallThresholds), l \in 1..Len(CallTensor[1]),
              f \in 1..Len(CallTensor[1][1]) :
                SupportFor(ti, l)[f]
                    <=> (CountNonzero(CallTensor, l, f) >= CallThresholds[ti])
        /\ (CallTensor = ExampleTensor /\ CallThresholds = <<4>>)
                => heap[ret.ref].data = <<TRUE, FALSE, FALSE>>

\* C2: stability_selection_to_threshold returns iff every converted
\* threshold t has 1 < t <= n_boots, raises ValueError otherwise, and so
\* returns only integers in (1, n_boots]; resolve(1, 10) and
\* resolve(11, 10) fail.
C2_BoundsEnforced ==
    (IsResolve /\ WellFormed) =>
        /\ Returned <=> \A i \in 1..Len(InputData) :
                            /\ 1 < ThresholdOf(InputData[i], call.n_boots)
                            /\ ThresholdOf(InputData[i], call.n_boots) <= call.n_boots
        /\ ~Returned => ret.status = "ValueError"
        /\ Returned => \A i \in 1..Len(ReturnedValues) :
                            /\ heap[ret.ref].data[i].t = "int"
                            /\ 1 < ReturnedValues[i]
                            /\ ReturnedValues[i] <= call.n_boots
        /\ (call.ss \in {ArgScalar(PyInt(1)), ArgScalar(PyInt(11))}
            /\ call.n_boots = 10) => ret.status = "ValueError"

C2_Witness ==
    /\ IsResolve
    /\ call.ss = ArgScalar(PyInt(11))
    /\ call.n_boots = 10
    /\ ret.status = "ValueError"

\* C3: on a scalar the result has one element: floor(f * n_boots) for a
\* fraction f, k itself for an integer k, when the bounds check lets it
\* through; resolve(0.9, 10) = [9].
C3_ScalarResult ==
    (ScalarInput /\ Returned) =>
        /\ Len(ReturnedValues) = 1
        /\ call.ss.val.t = "float" =>
            /\ ReturnedValues[1] * call.ss.val.den <= call.ss.val.num * call.n_boots
            /\ call.ss.val.num * call.n_boots < (ReturnedValues[1] + 1) * call.ss.val.den
        /\ call.ss.val.t # "float" => ReturnedValues[1] = call.ss.val.num

\* C3, the documented example
C3_Example ==
    (IsResolve /\ call.ss = ArgScalar(PyFloat(9, 10)) /\ call.n_boots = 10) =>
        Returned /\ ReturnedValues = <<9>>

\* C3: the scalar rule together with its documented example
C3_ScalarThreshold == C3_ScalarResult /\ C3_Example

C3_Witness ==
    /\ ScalarInput
    /\ call.ss.val = PyFloat(9, 10)
    /\ call.n_boots = 4
    /\ Returned
    /\ ReturnedValues = <<3>>

\* C4: on a homogeneous list or array the result has the input's length and
\* order: the i-th fraction scaled by n_boots and truncated, or the i-th
\* integer unchanged; resolve([0.5, 0.9], 10) = [5, 9].
C4_ElementwiseSequence ==
    /\ ((ListInput \/ ArrayInput) /\ Returned) =>
        /\ Len(ReturnedValues) = Len(InputData)
        /\ \A i \in 1..Len(InputData) :
                ReturnedValues[i] = ThresholdOf(InputData[i], call.n_boots)
        /\ \A i \in 1..Len(InputData) :
                InputData[i].t # "float" => ReturnedValues[i] = InputData[i].num
    /\ (ListInput /\ InputData = <<PyFloat(5, 10), PyFloat(9, 10)>>
        /\ call.n_boots = 10) => (Returned /\ ReturnedValues = <<5, 9>>)

C4_Witness ==
    /\ ListInput
    /\ InputData = <<PyFloat(9, 10), PyFloat(5, 10)>>
    /\ call.n_boots = 4
    /\ Returned
    /\ ReturnedValues = <<3, 2>>

\* a list mixing fractions and integers or holding something that is
\* neither, an array of another element type, an input of another type
Malformed ==
    \/ ListInput /\ ~AllFractions /\ ~AllIntegers
    \/ ArrayInput /\ pre[call.ss.ref].dtype \notin {"float", "int"}
    \/ IsResolve /\ call.ss.kind = "other"

\* C5: a malformed specification is rejected with ValueError at once:
\* nothing is returned and nothing was converted.
C5_MalformedRejected ==
    Malformed => (ret.status = "ValueError" /\ ret.ref = 0 /\ heap = pre)

C5_Witness ==
    /\ ListInput
    /\ InputData = <<PyFloat(5, 10), PyInt(1)>>
    /\ call.n_boots = 4
    /\ ret.status = "ValueError"

\* C6: intersection returns one support of n_features entries per
\* (threshold, lambda) pair, n_thresholds * n_lambdas rows in threshold-major
\* order, singleton axes squeezed, duplicates kept.
C6_ThresholdMajorRows ==
    SequenceOfThresholds =>
        /\ Returned
        /\ LET rows == Len(CallThresholds) * Len(CallTensor[1])
               n_features == Len(CallTensor[1][1])
               expected == [r \in 1..rows |-> [f \in 1..n_features |->
                    CountNonzero(CallTensor, ((r - 1) % Len(CallTensor[1])) + 1, f)
                        >= CallThresholds[((r - 1) \div Len(CallTensor[1])) + 1]]]
           IN heap[ret.ref].data =
                (IF rows = 1 /\ n_features = 1 THEN expected[1][1]
                 ELSE IF rows = 1 THEN expected[1]
                 ELSE IF n_features = 1 THEN [r \in 1..rows |-> expected[r][1]]
                 ELSE expected)

\* C7: predict and predict_mean raise NotFittedError while the instance is
\* Unfit, in any sequence of calls, and return a prediction once coef_ and
\* intercept_ are present.
C7_NotFittedUntilFit ==
    out.op \in {"predict", "predict_mean"} =>
        /\ ~(coef_.set /\ intercept_.set) =>
                (out.status = "NotFittedError" /\ out.eta = <<>>)
        /\ (coef_.set /\ intercept_.set) =>
                (out.status = "ok" /\ Len(out.eta) = 2)

C7_Witness ==
    /\ out.op = "predict_mean"
    /\ out.status = "NotFittedError"
    /\ ~coef_.set

\* C8: neither function changes an object of its caller, whether it
\* returns or raises, and the array stability_selection_to_threshold
\* returns is none of the caller's objects.
C8_InputsUntouched ==
    (IsResolve \/ IsIntersection) =>
        /\ Len(heap) >= Len(pre)
        /\ \A i \in 1..Len(pre) : heap[i] = pre[i]
        /\ (IsResolve /\ Returned) => ret.ref \notin 1..Len(pre)

C8_Witness ==
    /\ ArrayInput
    /\ pre[call.ss.ref].dtype = "int"
    /\ Returned
    /\ heap[ret.ref].data = pre[call.ss.ref].data

\* C9: the supports are monotone in the threshold: whatever is True for a
\* threshold t2 at a lambda is True for every threshold t1 <= t2 there.
C9_MonotoneInThreshold ==
    SequenceOfThresholds =>
        /\ Returned
        /\ \A t1 \in 1..Len(CallThresholds), t2 \in 1..Len(CallThresholds),
              l \in 1..Len(CallTensor[1]), f \in 1..Len(CallTensor[1][1]) :
                (CallThresholds[t1] <= CallThresholds[t2] /\ SupportFor(t2, l)[f])
                    => SupportFor(t1, l)[f]

\* C10: an empty list raises nothing, whatever n_boots: the result is an
\* empty threshold array.
C10_EmptyListAccepted ==
    (ListInput /\ InputData = <<>>) =>
        (Returned /\ heap[ret.ref].type = "ndarray" /\ ReturnedValues = <<>>)

C10_Witness ==
    /\ ListInput
    /\ InputData = <<>>
    /\ call.n_boots = 1
    /\ Returned

====
